---- MODULE Spec2Model ----
(***************************************************************************)
(* Model of the OpenKyrozen agent: the tool-invocation control loop of     *)
(* main.py (_chat_turn and main), the parser parse_json_from_response,     *)
(* the executor _run_tool, the context assembler _build_messages, and the  *)
(* long-term memory of memory.py (MemoryBank.add_log / recall).            *)
(*                                                                         *)
(* A text is a sequence of tokens; a token is a literal fragment of the    *)
(* text (a word, a run of whitespace, a fence delimiter, a JSON payload).  *)
(* String operations of the source (strip, lower, startswith, the fence    *)
(* regular expression, json.loads, len) are computed token by token.       *)
(***************************************************************************)
EXTENDS Integers, Sequences, FiniteSets, TLC

\* ---------------------------------------------------------------- bounds

\* Longest oracle text (in tokens) the parser is applied to in ParseSpec.
MaxTextLen == 4
\* Number of user turns the main loop runs in Spec.
MaxTurns == 1
\* Number of capabilities that may be registered at runtime.
MaxRegistrations == 1
\* Earlier turns in the windows _build_messages is applied to: the window
\* then holds 2 + 2 * MaxWindowPairs messages, more than 2 * SHORT_TERM_CAP.
MaxWindowPairs == 10
\* Entries in the stores recall is applied to, and the largest n_results.
MaxStoreDocs == 4
MaxRecallN == 3

\* ------------------------------------------------------ program constants

SHORT_TERM_CAP == 10
MAX_TOOL_RETRIES == 3
\* main.py line 235: a reply shorter than this many characters is dropped.
MIN_REPLY_CHARS == 5
\* main.py line 81: recall(user_input, n_results=2).
RECALL_N == 2

\* ------------------------------------------------------------------ text

\* Whitespace tokens: str.strip() removes them at both ends.
IsSpace(tok) == tok \in {" ", "\n"}

RECURSIVE LStrip(_)
LStrip(text) ==
  IF text # <<>> /\ IsSpace(Head(text)) THEN LStrip(Tail(text)) ELSE text

RECURSIVE RStrip(_)
RStrip(text) ==
  IF text # <<>> /\ IsSpace(text[Len(text)])
  THEN RStrip(SubSeq(text, 1, Len(text) - 1))
  ELSE text

\* str.strip()
Strip(text) == RStrip(LStrip(text))

\* str.lower() of one token.
LowerTok(tok) ==
  CASE tok = "Error" -> "error"
    [] tok = "ERROR" -> "error"
    [] tok = "Search " -> "search "
    [] tok = "Failed" -> "failed"
    [] tok = "Exit code 1\nstdout:\n\nstderr:\n" -> "exit code 1\nstdout:\n\nstderr:\n"
    [] tok = "Wrote 2 characters to /home/agent/hello.txt" -> "wrote 2 characters to /home/agent/hello.txt"
    [] tok = "No results found." -> "no results found."
    [] tok = "- URL: " -> "- url: "
    [] OTHER -> tok

\* str.lower()
Lower(text) == [i \in 1..Len(text) |-> LowerTok(text[i])]

\* Tokens (already lower-cased) whose characters begin with "error".
TokStartsWithError(tok) == tok \in {"error"}

\* text.startswith("error")
StartsWithError(text) == text # <<>> /\ TokStartsWithError(text[1])

\* len(tok): the fence delimiter is three characters long.
TokChars(tok) == IF tok = "<fence>" THEN 3 ELSE Len(tok)

\* len(text): the number of characters.
RECURSIVE CharLen(_)
CharLen(text) ==
  IF text = <<>> THEN 0 ELSE TokChars(Head(text)) + CharLen(Tail(text))

\* sep.join(texts)
RECURSIVE Join(_, _)
Join(texts, sep) ==
  IF texts = <<>> THEN <<>>
  ELSE IF Len(texts) = 1 THEN texts[1]
  ELSE texts[1] \o <<sep>> \o Join(Tail(texts), sep)

\* seq[-n:]
LastN(seq, n) ==
  IF Len(seq) <= n THEN seq ELSE SubSeq(seq, Len(seq) - n + 1, Len(seq))

Min(a, b) == IF a <= b THEN a ELSE b

\* ------------------------------------------------------------------ JSON

\* The fence delimiter (three backquote characters, written here as a
\* bracketed word) and the optional tag of the regular expression.
TICKS == "<fence>"
JSONTAG == "json"

\* JSON payload tokens: each is the text of one JSON value.
J_read == "{\"action\": \"read_file\", \"args\": \"hello.txt\"}"
J_write == "{\"action\": \"write_file\", \"args\": {\"path\": \"a\"}}"
J_noargs == "{\"action\": \"run_cmd\"}"
J_run == "{\"action\": \"run_cmd\", \"args\": \"cat notes\"}"
J_search == "{\"action\": \"search_web\", \"args\": \"\"}"
J_new == "{\"action\": \"new_tool\", \"args\": \"x\"}"
J_unknown == "{\"action\": \"delete_everything\", \"args\": \"\"}"
J_case == "{\"action\": \"Read_File\", \"args\": \"hello.txt\"}"
J_list == "{\"action\": [\"read_file\"], \"args\": \"hello.txt\"}"
J_dict == "{\"action\": {\"name\": \"read_file\"}}"
J_num == "{\"action\": 1}"
J_null == "{\"action\": null}"
J_noaction == "{\"args\": \"hello.txt\"}"
J_array == "[\"read_file\", \"hello.txt\"]"

JsonTokens ==
  {J_read, J_write, J_noargs, J_run, J_search, J_new, J_unknown, J_case, J_list, J_dict,
   J_num, J_null, J_noaction, J_array}

\* The decoded value of a payload token, as far as the parser and the loop
\* look at it: whether it is a dict, whether it has the key "action", the
\* type of the action value ("str", "list", "dict", "int", "null"), the
\* action string, and what lines 171-172 make of "args".
JsonValue(isDict, hasAction, actionType, action, args) ==
  [isDict |-> isDict, hasAction |-> hasAction, actionType |-> actionType,
   action |-> action, args |-> args]

JsonDecode(tok) ==
  CASE tok = J_read -> JsonValue(TRUE, TRUE, "str", "read_file", "hello.txt")
    [] tok = J_write -> JsonValue(TRUE, TRUE, "str", "write_file", "{'path': 'a'}")
    [] tok = J_noargs -> JsonValue(TRUE, TRUE, "str", "run_cmd", "")
    [] tok = J_run -> JsonValue(TRUE, TRUE, "str", "run_cmd", "cat notes")
    [] tok = J_search -> JsonValue(TRUE, TRUE, "str", "search_web", "")
    [] tok = J_new -> JsonValue(TRUE, TRUE, "str", "new_tool", "x")
    [] tok = J_unknown -> JsonValue(TRUE, TRUE, "str", "delete_everything", "")
    [] tok = J_case -> JsonValue(TRUE, TRUE, "str", "Read_File", "hello.txt")
    [] tok = J_list -> JsonValue(TRUE, TRUE, "list", "", "hello.txt")
    [] tok = J_dict -> JsonValue(TRUE, TRUE, "dict", "", "")
    [] tok = J_num -> JsonValue(TRUE, TRUE, "int", "", "")
    [] tok = J_null -> JsonValue(TRUE, TRUE, "null", "", "")
    [] tok = J_noaction -> JsonValue(TRUE, FALSE, "null", "", "hello.txt")
    [] OTHER -> JsonValue(FALSE, FALSE, "null", "", "")

\* json.loads(raw): a body decodes iff it is exactly one JSON value;
\* anything else raises json.JSONDecodeError.
JsonLoads(raw) ==
  IF Len(raw) = 1 /\ raw[1] \in JsonTokens
  THEN [ok |-> TRUE, value |-> JsonDecode(raw[1])]
  ELSE [ok |-> FALSE, value |-> JsonValue(FALSE, FALSE, "null", "", "")]

\* hash(value) raises TypeError for a list or a dict.
Unhashable(actionType) == actionType \in {"list", "dict"}

\* The registry is a dict: a sequence of distinct names in insertion order.
InRegistry(name, tools) == \E i \in 1..Len(tools) : tools[i] = name

\* -------------------------------------------------------------- the parser

\* Position of the first fence delimiter at or after position i (0: none).
RECURSIVE FirstTicks(_, _)
FirstTicks(text, i) ==
  IF i > Len(text) THEN 0
  ELSE IF text[i] = TICKS THEN i
  ELSE FirstTicks(text, i + 1)

\* re.search(r"<fence>(?:json)?\s*([\s\S]*?)\s*<fence>", text): the first delimiter
\* opens the fence, the next one closes it; the tag and the whitespace
\* around the body are not part of group(1).
FenceSearch(text) ==
  LET open == FirstTicks(text, 1)
      close == IF open = 0 THEN 0 ELSE FirstTicks(text, open + 1)
  IN IF close = 0 THEN [found |-> FALSE, body |-> <<>>]
     ELSE LET inner == SubSeq(text, open + 1, close - 1)
              untagged == IF inner # <<>> /\ Head(inner) = JSONTAG
                          THEN Tail(inner) ELSE inner
          IN [found |-> TRUE, body |-> Strip(untagged)]

NoCall == [kind |-> "none", action |-> "", args |-> ""]
RaisedCall == [kind |-> "raise", action |-> "", args |-> ""]

\* parse_json_from_response(text) with the registry as it is now. kind is
\* "call" (a dict is returned), "none" (None is returned) or "raise" (an
\* exception other than JSONDecodeError leaves the function).
ParseJsonFromResponse(text, tools) ==
  LET m == FenceSearch(Strip(text))
      loaded == JsonLoads(m.body)
      data == loaded.value
  IN IF ~m.found THEN NoCall
     ELSE IF ~loaded.ok THEN NoCall
     ELSE IF ~(data.isDict /\ data.hasAction) THEN NoCall
     ELSE IF Unhashable(data.actionType) THEN RaisedCall
     ELSE IF data.actionType = "str" /\ InRegistry(data.action, tools)
          THEN [kind |-> "call", action |-> data.action, args |-> data.args]
     ELSE NoCall

\* ------------------------------------------------------------- the registry

\* tools.py AVAILABLE_TOOLS as the module defines it.
InitialTools == <<"write_file", "read_file", "run_cmd", "search_web">>

\* Names a runtime registration may add to the registry.
DynamicNames == {"new_tool", "delete_everything"}

\* fn.__doc__, stripped, newlines replaced by spaces ("" without docstring).
ToolDoc(name) ==
  CASE name = "write_file" -> "Write content to a file. Args format: \"path|content\"."
    [] name = "read_file" -> "Read content from a file. Args format: \"path\"."
    [] name = "run_cmd" -> "Execute a shell command. Args: the full command string."
    [] name = "search_web" -> "Search the internet for real-time information."
    [] OTHER -> ""

\* _build_tools_list(): one line "- name: desc" per entry of the registry.
BuildToolsList(tools) ==
  Join([i \in 1..Len(tools) |-> <<"- ", tools[i], ": ", ToolDoc(tools[i])>>], "\n")

\* main.py line 52: computed once, when the module is loaded.
TOOLS_LIST == BuildToolsList(InitialTools)

\* --------------------------------------------------------- context assembly

Msg(role, content) == [role |-> role, content |-> content]

\* _build_system_prompt(tools_list, memory_context); the three prompt files
\* are opaque tokens.
BuildSystemPrompt(tools_list, memory_context) ==
  <<"[ROLE]\n", "<role.md>", "\n\n", "[TOOLS]\n">> \o tools_list
  \o <<"\n\n", "[INSTRUCTIONS]\n", "<instructions.md>", "\n\n",
       "[EXAMPLES]\n", "<examples.md>", "\n\n", "[MEMORY]\n">>
  \o memory_context

\* main.py line 82
MemoryContext(recalled) ==
  IF recalled # <<>>
  THEN <<"Relevant past context:\n">> \o Join(recalled, "\n---\n")
  ELSE <<"(none)">>

\* Mutant of BuildMessages: the whole window is sent, whatever its length.
BuildMessages_NoCap(input, window, recalled) ==
  <<Msg("system", BuildSystemPrompt(TOOLS_LIST, MemoryContext(recalled)))>>
  \o window
  \o <<Msg("user", input)>>

\* _build_messages(user_input), given what recall returned and the window.
BuildMessages(input, window, recalled) ==
  <<Msg("system", BuildSystemPrompt(TOOLS_LIST, MemoryContext(recalled)))>>
  \o LastN(window, SHORT_TERM_CAP * 2)
  \o <<Msg("user", input)>>

\* ---------------------------------------------------------------- memory

\* What the store may do with a call: succeed, or raise.
StoreOutcomes == {"ok", "raise"}

\* Sequences of k distinct entries of the collection: the store's relevance
\* ranking is its own.
Ranked(coll, k) ==
  {[i \in 1..k |-> coll[f[i]]] :
     f \in {g \in [1..k -> 1..Len(coll)] :
              \A a, b \in 1..k : a # b => g[a] # g[b]}}

\* MemoryBank.recall(query, n_results): the set of values it may return and
\* the store query it makes. A blank query returns [] without touching the
\* store; a store that raises (in count() or in query()) yields []; an
\* empty collection yields no documents.
NoQuery == [called |-> FALSE, n_results |-> 0, count |-> 0]

\* Mutant of Recall: a blank query is sent to the store like any other.
Recall_NoBlankGuard(query, n, coll, outcome, pick) ==
  LET count == Len(coll)
      k == Min(n, IF count = 0 THEN 1 ELSE count)
      q == [called |-> TRUE, n_results |-> k, count |-> count]
  IN IF outcome = "raise" \/ count = 0
     THEN [docs |-> <<>>, query |-> q]
     ELSE [docs |-> pick, query |-> q]

Recall(query, n, coll, outcome, pick) ==
  IF query = <<>> \/ Strip(query) = <<>>
  THEN [docs |-> <<>>, query |-> NoQuery]
  ELSE LET count == Len(coll)
           k == Min(n, IF count = 0 THEN 1 ELSE count)
           q == [called |-> TRUE, n_results |-> k, count |-> count]
       IN IF outcome = "raise" \/ count = 0
          THEN [docs |-> <<>>, query |-> q]
          ELSE [docs |-> pick, query |-> q]

\* The rankings the store may return for a request of n results.
Picks(n, coll) ==
  IF Len(coll) = 0 THEN {<<>>} ELSE Ranked(coll, Min(n, Len(coll)))

\* Everything one recall may return, over the store's behaviours.
RecallResults(query, n, coll) ==
  {Recall(query, n, coll, so, pick) :
     so \in StoreOutcomes, pick \in Picks(n, coll)}

\* MemoryBank.add_log(text): the first add, then on failure the diagnostic
\* add, which is not guarded. raised: the exception leaves add_log.
AddLog(text, coll, first, second) ==
  IF first = "ok"
  THEN [coll |-> Append(coll, text), raised |-> FALSE]
  ELSE IF second = "ok"
  THEN [coll |-> Append(coll, <<"[add_log error] ">> \o text
                               \o <<" (error: ", "store unavailable", ")">>),
        raised |-> FALSE]
  ELSE [coll |-> coll, raised |-> TRUE]

\* ---------------------------------------------------------------- oracle

\* What ollama_chat (or a handler) may do: return a text, or raise an
\* exception whose message is a text.
Returned(text) == [kind |-> "return", text |-> text]
Raised(text) == [kind |-> "raise", text |-> text]

\* Mutant of GetLLMResponse: the message of the exception is returned
\* without the marker.
GetLLMResponse_NoMarker(outcome) == outcome.text

\* _get_llm_response(messages): the content, or the marked error text.
GetLLMResponse(outcome) ==
  IF outcome.kind = "raise"
  THEN <<"[LLM Error] ">> \o outcome.text
  ELSE outcome.text

\* --------------------------------------------------------------- executor

\* Mutant of RunTool: a handler's exception message is returned without
\* the "Error: " prefix.
RunTool_NoPrefix(action, args, tools, outcome) ==
  IF ~InRegistry(action, tools)
  THEN <<"Error", ": unknown tool '", action, "'">>
  ELSE outcome.text

\* _run_tool(action, args): the handler's outcome is a returned text or a
\* raised exception with a message.
RunTool(action, args, tools, outcome) ==
  IF ~InRegistry(action, tools)
  THEN <<"Error", ": unknown tool '", action, "'">>
  ELSE IF outcome.kind = "raise"
  THEN <<"Error", ": ">> \o outcome.text
  ELSE outcome.text

\* The branch of _run_tool that produced the result.
RunToolBranch(action, tools, outcome) ==
  IF ~InRegistry(action, tools) THEN "missing"
  ELSE IF outcome.kind = "raise" THEN "raised"
  ELSE "returned"

\* main.py line 177: result.strip().lower().startswith("error")
IsFailure(res) == StartsWithError(Lower(Strip(res)))

\* Mutant of ShouldRetry: the attempt bound is off by one.
ShouldRetry_OffByOne(res, att) == IsFailure(res) /\ att <= MAX_TOOL_RETRIES

\* main.py line 177: the whole condition of the retry branch.
ShouldRetry(res, att) == IsFailure(res) /\ att < MAX_TOOL_RETRIES

\* ------------------------------------------------------------ environment

\* What the user types (stripped, non-empty, not a command).
UserInputs == {<<"read hello.txt">>}

\* Raw oracle outputs.
OracleTexts ==
  {<<>>,
   <<" ", "\n">>,
   <<"ok">>,
   <<" ", "All done.", "\n">>,
   <<"Thinking Process:", "\n", TICKS, JSONTAG, "\n", J_read, "\n", TICKS>>,
   <<TICKS, J_new, TICKS>>,
   <<TICKS, JSONTAG, J_run, TICKS>>,
   <<"Let me search.", "\n", TICKS, J_search, TICKS>>,
   <<TICKS, JSONTAG, J_list, TICKS>>}

OracleOutcomes ==
  {Returned(t) : t \in OracleTexts} \cup {Raised(<<"connection refused">>)}

\* args.strip() is empty.
BlankArgs(args) == args \in {"", " "}

\* tools.py write_file: what it may return for these args.
WriteFileOutcomes(args) ==
  IF args \in {"", " ", "hello.txt"}
  THEN {Returned(<<"Error", ": write_file requires args in format path|content">>)}
  ELSE {Returned(<<"Wrote 2 characters to /home/agent/hello.txt">>),
        Returned(<<"Error", " writing file: ", "permission denied">>)}

\* tools.py read_file: the file's content (an empty file gives the empty
\* text), or an error text.
ReadFileOutcomes(args) ==
  IF BlankArgs(args)
  THEN {Returned(<<"Error", ": read_file requires a path">>)}
  ELSE {Returned(<<>>),
        Returned(<<"hi there">>),
        Returned(<<"Error", ": file not found: ", "/home/agent/", args>>)}

\* tools.py run_cmd: a non-zero exit code is reported with the output.
RunCmdOutcomes(args) ==
  IF BlankArgs(args)
  THEN {Returned(<<"Error", ": run_cmd requires a command">>)}
  ELSE {Returned(<<"Exit code 1\nstdout:\n\nstderr:\n", "Failed", " to open">>),
        Returned(<<"(no output)">>),
        Returned(<<"Error", ": command timed out after 60s">>)}

\* tools.py search_web
SearchWebOutcomes(args) ==
  IF BlankArgs(args)
  THEN {Returned(<<"Search ", "Error", ": query is empty.">>)}
  ELSE {Returned(<<"- URL: ", "https://example.org">>),
        Returned(<<"No results found.">>),
        Returned(<<"Search ", "Error", ": ", "network unreachable">>)}

\* A handler registered at runtime is opaque: it returns or raises.
DynamicOutcomes == {Returned(<<"done">>), Raised(<<"disk full">>)}

\* What fn(args) may do, for the handler the name is registered to.
HandlerOutcomes(action, args) ==
  CASE action = "write_file" -> WriteFileOutcomes(args)
    [] action = "read_file" -> ReadFileOutcomes(args)
    [] action = "run_cmd" -> RunCmdOutcomes(args)
    [] action = "search_web" -> SearchWebOutcomes(args)
    [] OTHER -> DynamicOutcomes

\* ------------------------------------------------------------------ state

VARIABLES
  pc,                 \* where the process is: main's prompt or a line of _chat_turn
  turns,              \* turns started so far
  short_term_memory,  \* main.py short_term_memory: the conversation window
  collection,         \* the documents of the store's collection
  AVAILABLE_TOOLS,    \* the registry: names in insertion order
  user_input,         \* _chat_turn's argument
  messages,           \* the message list of the latest oracle call
  response_text,      \* _chat_turn's response_text
  attempt,            \* the loop variable of line 165
  tool_call,          \* the parser's result for response_text
  result,             \* the latest _run_tool result
  reply,              \* what _chat_turn returned
  dispatches,         \* _run_tool calls of this turn
  llm_calls,          \* oracle calls of this turn
  call_kind,          \* which call the latest oracle call was
  store_query,        \* the store query of the latest recall
  tool_outcome,       \* which branch the latest _run_tool took
  exception,          \* the exception that ended the process, if any
  recalled,           \* what the latest recall returned (main.py line 81)
  oracle_raised       \* whether ollama_chat raised in the latest oracle call

vars ==
  <<pc, turns, short_term_memory, collection, AVAILABLE_TOOLS, user_input,
    messages, response_text, attempt, tool_call, result, reply, dispatches,
    llm_calls, call_kind, store_query, tool_outcome, exception, recalled,
    oracle_raised>>

\* main.py lines 70-73
InitialWindow ==
  <<Msg("user", <<"Hello, are you ready to help me?">>),
    Msg("assistant", <<"Yes! I am a powerful Agent. I can use tools like search_web and write_file. How can I help you today?">>)>>

\* The locals of _chat_turn before a turn starts.
NoTurn ==
  /\ user_input = <<>>
  /\ messages = <<>>
  /\ response_text = <<>>
  /\ attempt = 0
  /\ tool_call = NoCall
  /\ result = <<>>
  /\ reply = <<>>
  /\ dispatches = 0
  /\ llm_calls = 0
  /\ call_kind = "none"
  /\ store_query = NoQuery
  /\ tool_outcome = "none"
  /\ recalled = <<>>
  /\ oracle_raised = FALSE

\* The collection is persistent (memory.py lines 20-27): a session starts
\* with the logs earlier sessions left in it.
PriorLogs ==
  <<<<"User: ", "read hello.txt", "\nAssistant: ", "The file says hi.">>>>

PriorCollections == {SubSeq(PriorLogs, 1, n) : n \in 0..Len(PriorLogs)}

Init ==
  /\ pc = "input"
  /\ turns = 0
  /\ short_term_memory = InitialWindow
  /\ collection \in PriorCollections
  /\ AVAILABLE_TOOLS = InitialTools
  /\ exception = "none"
  /\ NoTurn

\* ------------------------------------------------------------ _chat_turn

\* The notification texts of lines 160, 181 and 188-189.
EmptyNotice ==
  <<"System Notification: Please start your response with 'Thinking Process:' and then provide the JSON Action block.">>

FailedNotice(res) ==
  <<"System Notification: Tool failed. Result: ">> \o res
  \o <<". Try again with a different action or args (reply with JSON only).">>

ToolFeedback(res) ==
  <<"System Notification: Tool executed. Result: ">> \o res
  \o <<". ", "Please summarize what you did to the user.">>

\* Lines 151-156: assemble the context, call the oracle, test for empty.
StartTurn ==
  /\ pc = "input"
  /\ turns < MaxTurns
  /\ \E input \in UserInputs, o \in OracleOutcomes :
     \E r \in RecallResults(input, RECALL_N, collection) :
       LET text == Strip(GetLLMResponse(o))
       IN /\ user_input' = input
          /\ messages' = BuildMessages(input, short_term_memory, r.docs)
          /\ store_query' = r.query
          /\ recalled' = r.docs
          /\ oracle_raised' = (o.kind = "raise")
          /\ response_text' = text
          /\ pc' = IF text = <<>> \/ Strip(text) = <<>> THEN "reprompt" ELSE "parse"
  /\ turns' = turns + 1
  /\ llm_calls' = 1
  /\ call_kind' = "initial"
  /\ attempt' = 0
  /\ dispatches' = 0
  /\ UNCHANGED <<short_term_memory, collection, AVAILABLE_TOOLS, tool_call,
                 result, reply, tool_outcome, exception>>

\* Mutant of Reprompt: the extra call uses up one retry attempt.
Reprompt_ConsumesAttempt ==
  /\ pc = "reprompt"
  /\ \E o \in OracleOutcomes :
       /\ response_text' = Strip(GetLLMResponse(o))
       /\ oracle_raised' = (o.kind = "raise")
  /\ messages' = Append(messages, Msg("user", EmptyNotice))
  /\ attempt' = attempt + 1
  /\ llm_calls' = llm_calls + 1
  /\ call_kind' = "reprompt"
  /\ pc' = "parse"
  /\ UNCHANGED <<turns, short_term_memory, collection, AVAILABLE_TOOLS,
                 user_input, tool_call, result, reply, dispatches,
                 store_query, tool_outcome, exception, recalled>>

\* Lines 157-163: the empty response is answered by one more call, with
\* the notice appended to the same message list.
Reprompt ==
  /\ pc = "reprompt"
  /\ \E o \in OracleOutcomes :
       /\ response_text' = Strip(GetLLMResponse(o))
       /\ oracle_raised' = (o.kind = "raise")
  /\ messages' = Append(messages, Msg("user", EmptyNotice))
  /\ llm_calls' = llm_calls + 1
  /\ call_kind' = "reprompt"
  /\ pc' = "parse"
  /\ UNCHANGED <<turns, short_term_memory, collection, AVAILABLE_TOOLS,
                 user_input, attempt, tool_call, result, reply, dispatches,
                 store_query, tool_outcome, exception,
                 recalled>>

\* Mutant of ParseStep: a text without a tool call falls through to the
\* summarizing step instead of being returned.
ParseStep_FallThrough ==
  /\ pc = "parse"
  /\ LET tc == ParseJsonFromResponse(response_text, AVAILABLE_TOOLS)
     IN /\ tool_call' = tc
        /\ pc' = CASE tc.kind = "raise" -> "crashed"
                   [] tc.kind = "none" -> "summarize"
                   [] OTHER -> "dispatch"
        /\ exception' = IF tc.kind = "raise" THEN "TypeError" ELSE exception
  /\ UNCHANGED <<turns, short_term_memory, collection, AVAILABLE_TOOLS,
                 user_input, messages, response_text, attempt, result, reply,
                 dispatches, llm_calls, call_kind, store_query, tool_outcome,
                 recalled, oracle_raised>>

\* Lines 167-172: parse; no tool call returns the text; an exception of
\* the parser leaves _chat_turn and main.
ParseStep ==
  /\ pc = "parse"
  /\ LET tc == ParseJsonFromResponse(response_text, AVAILABLE_TOOLS)
     IN /\ tool_call' = tc
        /\ pc' = CASE tc.kind = "raise" -> "crashed"
                   [] tc.kind = "none" -> "turn_done"
                   [] OTHER -> "dispatch"
        /\ reply' = IF tc.kind = "none" THEN response_text ELSE reply
        /\ exception' = IF tc.kind = "raise" THEN "TypeError" ELSE exception
  /\ UNCHANGED <<turns, short_term_memory, collection, AVAILABLE_TOOLS,
                 user_input, messages, response_text, attempt, result,
                 dispatches, llm_calls, call_kind, store_query, tool_outcome,
                 recalled, oracle_raised>>

\* Lines 175-177: run the tool and decide between retry and summary.
Dispatch ==
  /\ pc = "dispatch"
  /\ \E o \in HandlerOutcomes(tool_call.action, tool_call.args) :
       LET res == RunTool(tool_call.action, tool_call.args, AVAILABLE_TOOLS, o)
       IN /\ result' = res
          /\ tool_outcome' = RunToolBranch(tool_call.action, AVAILABLE_TOOLS, o)
          /\ pc' = IF ShouldRetry(res, attempt) THEN "retry" ELSE "summarize"
  /\ dispatches' = dispatches + 1
  /\ UNCHANGED <<turns, short_term_memory, collection, AVAILABLE_TOOLS,
                 user_input, messages, response_text, attempt, tool_call,
                 reply, llm_calls, call_kind, store_query, exception,
                 recalled, oracle_raised>>

\* Mutant of RetryCall: the failure notice is appended to the message
\* list of the previous call instead of a fresh context.
RetryCall_Accumulate ==
  /\ pc = "retry"
  /\ \E o \in OracleOutcomes :
       /\ response_text' = Strip(GetLLMResponse(o))
       /\ oracle_raised' = (o.kind = "raise")
  /\ messages' = Append(messages, Msg("user", FailedNotice(result)))
  /\ attempt' = attempt + 1
  /\ llm_calls' = llm_calls + 1
  /\ call_kind' = "retry"
  /\ pc' = "parse"
  /\ UNCHANGED <<turns, short_term_memory, collection, AVAILABLE_TOOLS,
                 user_input, tool_call, result, reply, dispatches,
                 store_query, tool_outcome, exception,
                 recalled>>

\* Lines 178-184: a fresh context plus the failure notice, one oracle call,
\* and the next iteration of the loop.
RetryCall ==
  /\ pc = "retry"
  /\ \E o \in OracleOutcomes,
        r \in RecallResults(user_input, RECALL_N, collection) :
       /\ messages' = Append(BuildMessages(user_input, short_term_memory, r.docs),
                             Msg("user", FailedNotice(result)))
       /\ store_query' = r.query
       /\ recalled' = r.docs
       /\ oracle_raised' = (o.kind = "raise")
       /\ response_text' = Strip(GetLLMResponse(o))
  /\ attempt' = attempt + 1
  /\ llm_calls' = llm_calls + 1
  /\ call_kind' = "retry"
  /\ pc' = "parse"
  /\ UNCHANGED <<turns, short_term_memory, collection, AVAILABLE_TOOLS,
                 user_input, tool_call, result, reply, dispatches,
                 tool_outcome, exception>>

\* Mutant of SummarizeCall: the summary goes back to the parser like any
\* other oracle text.
SummarizeCall_Reparse ==
  /\ pc = "summarize"
  /\ \E o \in OracleOutcomes,
        r \in RecallResults(user_input, RECALL_N, collection) :
       LET text == Strip(GetLLMResponse(o))
       IN /\ messages' = BuildMessages(user_input, short_term_memory, r.docs)
                         \o <<Msg("assistant", response_text),
                              Msg("user", ToolFeedback(result))>>
          /\ store_query' = r.query
          /\ recalled' = r.docs
          /\ oracle_raised' = (o.kind = "raise")
          /\ response_text' = IF text = <<>> THEN result ELSE text
  /\ llm_calls' = llm_calls + 1
  /\ call_kind' = "summary"
  /\ pc' = "parse"
  /\ UNCHANGED <<turns, short_term_memory, collection, AVAILABLE_TOOLS,
                 user_input, attempt, tool_call, result, reply, dispatches,
                 tool_outcome, exception>>

\* Lines 186-201: the summarizing call, with the fallback to the raw result.
SummarizeCall ==
  /\ pc = "summarize"
  /\ \E o \in OracleOutcomes,
        r \in RecallResults(user_input, RECALL_N, collection) :
       LET text == Strip(GetLLMResponse(o))
       IN /\ messages' = BuildMessages(user_input, short_term_memory, r.docs)
                         \o <<Msg("assistant", response_text),
                              Msg("user", ToolFeedback(result))>>
          /\ store_query' = r.query
          /\ recalled' = r.docs
          /\ oracle_raised' = (o.kind = "raise")
          /\ response_text' = IF text = <<>> THEN result ELSE text
  /\ reply' = response_text'
  /\ llm_calls' = llm_calls + 1
  /\ call_kind' = "summary"
  /\ pc' = "turn_done"
  /\ UNCHANGED <<turns, short_term_memory, collection, AVAILABLE_TOOLS,
                 user_input, attempt, tool_call, result, dispatches,
                 tool_outcome, exception>>

\* ------------------------------------------------------------------ main

\* The log text of line 244.
TurnLog(input, answer) == <<"User: ">> \o input \o <<"\nAssistant: ">> \o answer

\* Mutant of FinishTurn: the window keeps only its two newest messages
\* when a turn is appended.
FinishTurn_CapOnWrite ==
  /\ pc = "turn_done"
  /\ IF CharLen(Strip(reply)) < MIN_REPLY_CHARS
     THEN /\ pc' = "input"
          /\ UNCHANGED <<short_term_memory, collection, exception>>
     ELSE /\ short_term_memory' =
               LastN(short_term_memory
                       \o <<Msg("user", user_input), Msg("assistant", reply)>>, 2)
          /\ \E a \in {AddLog(TurnLog(user_input, reply), collection, first, second) :
                        first \in StoreOutcomes, second \in StoreOutcomes} :
               /\ collection' = a.coll
               /\ pc' = IF a.raised THEN "crashed" ELSE "input"
               /\ exception' = IF a.raised THEN "StoreError" ELSE exception
  /\ user_input' = <<>>
  /\ messages' = <<>>
  /\ response_text' = <<>>
  /\ attempt' = 0
  /\ tool_call' = NoCall
  /\ result' = <<>>
  /\ reply' = <<>>
  /\ dispatches' = 0
  /\ llm_calls' = 0
  /\ call_kind' = "none"
  /\ store_query' = NoQuery
  /\ tool_outcome' = "none"
  /\ recalled' = <<>>
  /\ oracle_raised' = FALSE
  /\ UNCHANGED <<turns, AVAILABLE_TOOLS>>

\* Lines 229-247: drop a short reply; otherwise append the turn to the
\* window and log it. The locals of the turn are gone afterwards.
FinishTurn ==
  /\ pc = "turn_done"
  /\ IF CharLen(Strip(reply)) < MIN_REPLY_CHARS
     THEN /\ pc' = "input"
          /\ UNCHANGED <<short_term_memory, collection, exception>>
     ELSE /\ short_term_memory' =
               short_term_memory \o <<Msg("user", user_input), Msg("assistant", reply)>>
          /\ \E a \in {AddLog(TurnLog(user_input, reply), collection, first, second) :
                        first \in StoreOutcomes, second \in StoreOutcomes} :
               /\ collection' = a.coll
               /\ pc' = IF a.raised THEN "crashed" ELSE "input"
               /\ exception' = IF a.raised THEN "StoreError" ELSE exception
  /\ user_input' = <<>>
  /\ messages' = <<>>
  /\ response_text' = <<>>
  /\ attempt' = 0
  /\ tool_call' = NoCall
  /\ result' = <<>>
  /\ reply' = <<>>
  /\ dispatches' = 0
  /\ llm_calls' = 0
  /\ call_kind' = "none"
  /\ store_query' = NoQuery
  /\ tool_outcome' = "none"
  /\ recalled' = <<>>
  /\ oracle_raised' = FALSE
  /\ UNCHANGED <<turns, AVAILABLE_TOOLS>>

\* Lines 217-219: /quit ends the session. (The /save command of lines
\* 220-227 is a session command outside the control loop; it is left out.)
Quit ==
  /\ pc = "input"
  /\ pc' = "exited"
  /\ UNCHANGED <<turns, short_term_memory, collection, AVAILABLE_TOOLS,
                 user_input, messages, response_text, attempt, tool_call,
                 result, reply, dispatches, llm_calls, call_kind, store_query,
                 tool_outcome, exception,
                 recalled, oracle_raised>>

\* A runtime registration: a new name enters the registry (between turns,
\* or while a handler runs).
RegisterTool ==
  /\ pc \in {"input", "dispatch"}
  /\ Len(AVAILABLE_TOOLS) < Len(InitialTools) + MaxRegistrations
  /\ \E name \in DynamicNames :
       /\ ~InRegistry(name, AVAILABLE_TOOLS)
       /\ AVAILABLE_TOOLS' = Append(AVAILABLE_TOOLS, name)
  /\ UNCHANGED <<pc, turns, short_term_memory, collection, user_input,
                 messages, response_text, attempt, tool_call, result, reply,
                 dispatches, llm_calls, call_kind, store_query, tool_outcome,
                 exception,
                 recalled, oracle_raised>>

Next ==
  \/ StartTurn
  \/ Reprompt
  \/ ParseStep
  \/ Dispatch
  \/ RetryCall
  \/ SummarizeCall
  \/ FinishTurn
  \/ Quit
  \/ RegisterTool

Spec == Init /\ [][Next]_vars

\* ------------------------------------------------- the parser on any text

\* Tokens of the texts the parser is applied to.
ParseAlphabet ==
  {" ", "hi", TICKS, JSONTAG} \cup (JsonTokens \ {J_write, J_noargs, J_run, J_search})

\* Every stripped text of at most MaxTextLen tokens.
ParseTexts ==
  {t \in UNION {[1..n -> ParseAlphabet] : n \in 0..MaxTextLen} : Strip(t) = t}

ParseRegistries == {InitialTools, Append(InitialTools, "new_tool")}

\* The state at line 167 of the first iteration, for any oracle text.
ParseInit ==
  /\ pc = "parse"
  /\ turns = 1
  /\ short_term_memory = InitialWindow
  /\ collection = <<>>
  /\ AVAILABLE_TOOLS \in ParseRegistries
  /\ \E input \in UserInputs :
       /\ user_input = input
       /\ messages = BuildMessages(input, InitialWindow, <<>>)
  /\ response_text \in ParseTexts
  /\ attempt = 0
  /\ tool_call = NoCall
  /\ result = <<>>
  /\ reply = <<>>
  /\ dispatches = 0
  /\ llm_calls = 1
  /\ call_kind = "initial"
  /\ store_query = [called |-> TRUE, n_results |-> 1, count |-> 0]
  /\ tool_outcome = "none"
  /\ exception = "none"
  /\ recalled = <<>>
  /\ oracle_raised = FALSE

ParseNext == ParseStep

ParseSpec == ParseInit /\ [][ParseNext]_vars

\* ------------------------------------------- the executor on any action

\* Action names _run_tool may be called with, registered or not.
ExecActions ==
  {InitialTools[i] : i \in 1..Len(InitialTools)} \cup DynamicNames \cup {""}

ExecArgs == {"", "hello.txt", "hello.txt|hi"}

\* The state at line 175 of any iteration, for any action name.
ExecInit ==
  /\ pc = "dispatch"
  /\ turns = 1
  /\ short_term_memory = InitialWindow
  /\ collection = <<>>
  /\ AVAILABLE_TOOLS \in ParseRegistries
  /\ attempt \in 0..MAX_TOOL_RETRIES
  /\ tool_call \in {[kind |-> "call", action |-> a, args |-> x] :
                      a \in ExecActions, x \in ExecArgs}
  /\ response_text = <<TICKS, J_read, TICKS>>
  /\ result = IF attempt = 0 THEN <<>>
              ELSE <<"Error", ": file not found: ", "/home/agent/", "hello.txt">>
  /\ \E input \in UserInputs :
       /\ user_input = input
       /\ messages = IF attempt = 0
                     THEN BuildMessages(input, InitialWindow, <<>>)
                     ELSE Append(BuildMessages(input, InitialWindow, <<>>),
                                 Msg("user", FailedNotice(result)))
  /\ reply = <<>>
  /\ dispatches = attempt
  /\ llm_calls = attempt + 1
  /\ call_kind = IF attempt = 0 THEN "initial" ELSE "retry"
  /\ store_query = [called |-> TRUE, n_results |-> 1, count |-> 0]
  /\ tool_outcome = IF attempt = 0 THEN "none" ELSE "returned"
  /\ exception = "none"
  /\ recalled = <<>>
  /\ oracle_raised = FALSE

ExecNext == Dispatch

ExecSpec == ExecInit /\ [][ExecNext]_vars

\* --------------------------------------------- recall on any query

\* The store after k logs were added to it.
StoreAfter(k) == [i \in 1..k |-> <<"User: ", "note ", ToString(i)>>]

\* Queries recall may be called with: blank ones and others.
RecallQueries ==
  {<<>>, <<" ">>, <<" ", "\n">>, <<"read hello.txt">>, <<" ", "hello", " ">>}

\* The state before a call of MemoryBank.recall(query, n_results); the
\* query is held in user_input.
RecallInit ==
  /\ pc = "recall"
  /\ turns = 0
  /\ short_term_memory = InitialWindow
  /\ collection \in {StoreAfter(k) : k \in 0..MaxStoreDocs}
  /\ AVAILABLE_TOOLS = InitialTools
  /\ exception = "none"
  /\ user_input \in RecallQueries
  /\ messages = <<>>
  /\ response_text = <<>>
  /\ attempt = 0
  /\ tool_call = NoCall
  /\ result = <<>>
  /\ reply = <<>>
  /\ dispatches = 0
  /\ llm_calls = 0
  /\ call_kind = "none"
  /\ store_query = NoQuery
  /\ tool_outcome = "none"
  /\ recalled = <<>>
  /\ oracle_raised = FALSE

\* memory.py lines 47-61: one call of recall.
RecallCall ==
  /\ pc = "recall"
  /\ \E n \in 1..MaxRecallN :
     \E r \in RecallResults(user_input, n, collection) :
       /\ recalled' = r.docs
       /\ store_query' = r.query
  /\ pc' = "recalled"
  /\ UNCHANGED <<turns, short_term_memory, collection, AVAILABLE_TOOLS,
                 user_input, messages, response_text, attempt, tool_call,
                 result, reply, dispatches, llm_calls, call_kind,
                 tool_outcome, exception, oracle_raised>>

RecallNext == RecallCall

RecallSpec == RecallInit /\ [][RecallNext]_vars

\* ------------------------------------- _build_messages on a long window

\* The two messages lines 240-241 appended for the i-th earlier turn.
EarlierTurn(i) ==
  <<Msg("user", <<"question ", ToString(i)>>),
    Msg("assistant", <<"answer ", ToString(i)>>)>>

\* The window after k turns were appended to the initial one.
RECURSIVE WindowAfter(_)
WindowAfter(k) ==
  IF k = 0 THEN InitialWindow ELSE WindowAfter(k - 1) \o EarlierTurn(k)

\* The state at line 209 of a session that has already appended up to
\* MaxWindowPairs turns to the window.
BuildInit ==
  /\ pc = "input"
  /\ turns = 0
  /\ short_term_memory \in {WindowAfter(k) : k \in 0..MaxWindowPairs}
  /\ collection \in PriorCollections
  /\ AVAILABLE_TOOLS = InitialTools
  /\ exception = "none"
  /\ NoTurn

\* One _chat_turn on that window: every call of _build_messages in it.
BuildNext ==
  \/ StartTurn
  \/ Reprompt
  \/ ParseStep
  \/ Dispatch
  \/ RetryCall
  \/ SummarizeCall

BuildSpec == BuildInit /\ [][BuildNext]_vars

\* ----------------------------------------------------------------- claims

HasToken(text, tok) == \E i \in 1..Len(text) : text[i] = tok

\* A message list that _build_messages(user_input) may have returned: one
\* system message, the window's tail, the user input.
IsFreshContext(msgs) ==
  LET tail == LastN(short_term_memory, SHORT_TERM_CAP * 2)
  IN /\ Len(msgs) = Len(tail) + 2
     /\ msgs[1].role = "system"
     /\ SubSeq(msgs, 2, Len(msgs) - 1) = tail
     /\ msgs[Len(msgs)] = Msg("user", user_input)

\* C1: one turn performs at most MAX_TOOL_RETRIES + 1 dispatches, and the
\* retry counter is never above MAX_TOOL_RETRIES, in particular when the
\* loop exits.
C1_DispatchBound ==
  /\ dispatches <= MAX_TOOL_RETRIES + 1
  /\ attempt <= MAX_TOOL_RETRIES

\* A turn that used every dispatch and returned.
C1_Witness ==
  /\ pc = "turn_done"
  /\ dispatches = MAX_TOOL_RETRIES + 1
  /\ attempt = MAX_TOOL_RETRIES

\* C2: a turn that went through the summarizing step never returns an
\* empty final answer.
C2_FinalAnswerNeverEmpty ==
  (pc = "turn_done" /\ call_kind = "summary") => reply # <<>>

\* C3: with MAX_TOOL_RETRIES = 3, a turn whose results all fail makes
\* exactly 3 retries and 4 dispatches; each retry call gets a fresh context
\* for the same user input plus one failure notice carrying the failed
\* result; a failed result is summarized only when the retries are used
\* up, by one call whose last message carries the last failure text.
C3_RetriesThenSummary ==
  /\ MAX_TOOL_RETRIES = 3
  /\ (pc = "parse" /\ call_kind = "retry") =>
       /\ IsFreshContext(SubSeq(messages, 1, Len(messages) - 1))
       /\ messages[Len(messages)] = Msg("user", FailedNotice(result))
       /\ IsFailure(result)
  /\ (pc = "summarize" /\ IsFailure(result)) =>
       /\ attempt = 3
       /\ dispatches = 4
  /\ (pc = "turn_done" /\ call_kind = "summary" /\ IsFailure(result)) =>
       /\ attempt = 3
       /\ dispatches = 4
       /\ llm_calls \in {5, 6}
       /\ messages[Len(messages)] = Msg("user", ToolFeedback(result))

\* The turn of the scenario: four failed dispatches, then the summary.
C3_Witness ==
  /\ pc = "turn_done"
  /\ call_kind = "summary"
  /\ IsFailure(result)
  /\ attempt = 3
  /\ dispatches = 4

\* C4: parse_json_from_response raises for no input text.
C4_ParserNeverRaises == tool_call.kind # "raise" /\ exception # "TypeError"

\* The failure markers of the claim ("shibai" and "cuowu" stand for the two
\* Chinese markers), and the tokens that contain one of them.
MarkerTokens == {"error", "fail", "failed", "shibai", "cuowu"}

ContainsFailureMarker(text) ==
  \E i \in 1..Len(text) : LowerTok(text[i]) \in MarkerTokens

\* C5: a result is retried (while attempts remain) if and only if its text
\* contains, case-insensitively, one of the failure markers.
C5_FailureIffMarker ==
  pc \in {"retry", "summarize"} =>
    ((pc = "retry") <=> (ContainsFailureMarker(result) /\ attempt < MAX_TOOL_RETRIES))

\* C6: no failure of the store reaches the caller of recall or add_log.
C6_StoreFailureAbsorbed == exception # "StoreError"

\* C7: when the parser finds no tool call in the current text, the turn
\* returns that text at once: no dispatch and no further oracle call.
C7_NoActionEndsTurn ==
  [][(pc = "parse" /\ ParseJsonFromResponse(response_text, AVAILABLE_TOOLS).kind = "none")
       => /\ pc' = "turn_done"
          /\ reply' = response_text
          /\ response_text' = response_text
          /\ dispatches' = dispatches
          /\ llm_calls' = llm_calls]_vars

\* A turn that ended on a text without a tool call after a retry.
C7_Witness ==
  /\ pc = "turn_done"
  /\ call_kind = "retry"
  /\ tool_call.kind = "none"
  /\ reply = response_text
  /\ attempt >= 1
  /\ dispatches = attempt

\* The text holds a fenced JSON object.
FencedObject(text) ==
  LET m == FenceSearch(Strip(text))
      loaded == JsonLoads(m.body)
  IN m.found /\ loaded.ok /\ loaded.value.isDict

\* The action of the fenced object is a string that names a registered tool.
ActionRegistered(text, tools) ==
  LET data == JsonLoads(FenceSearch(Strip(text)).body).value
  IN data.hasAction /\ data.actionType = "str" /\ InRegistry(data.action, tools)

\* C8: for a fenced JSON object whose action is not a registered name the
\* parser returns None, and the oracle text is the final answer.
C8_UnregisteredActionIsNone ==
  (pc # "parse" /\ FencedObject(response_text)
     /\ ~ActionRegistered(response_text, AVAILABLE_TOOLS))
    => (tool_call.kind = "none" /\ pc = "turn_done" /\ reply = response_text)

\* C9: _run_tool raises nothing; a handler's exception and a registry miss
\* both give a text the loop classifies as a failure, so that it retries
\* while attempts remain.
C9_RunToolFailureText ==
  (pc \in {"retry", "summarize"} /\ tool_outcome \in {"raised", "missing"})
    => /\ IsFailure(result)
       /\ exception = "none"
       /\ (attempt < MAX_TOOL_RETRIES => pc = "retry")

\* _run_tool was called with a name that is not in the registry.
C9_Witness ==
  /\ tool_outcome = "missing"
  /\ pc = "retry"
  /\ IsFailure(result)

\* C10: the system message of the context assembled after a registration
\* lists every name of the registry. (The registry changes only between
\* turns and during a dispatch, so at these places the latest context was
\* assembled from the registry as it is.)
C10_NewCapabilityListed ==
  pc \in {"reprompt", "parse", "turn_done"} =>
    \A i \in 1..Len(AVAILABLE_TOOLS) :
      HasToken(messages[1].content, AVAILABLE_TOOLS[i])

\* The messages a call site appended to what _build_messages returned.
AppendedAfterBuild ==
  CASE call_kind = "summary" -> 2
    [] call_kind \in {"reprompt", "retry"} -> 1
    [] OTHER -> 0

\* C11: every message list built by _build_messages is one system message,
\* then the most recent min(len(window), 2 * SHORT_TERM_CAP) messages of
\* the window in their order, then the user input as the last message; it
\* never holds more than 2 * SHORT_TERM_CAP window messages.
C11_BuiltMessagesShape ==
  messages # <<>> =>
    LET built == SubSeq(messages, 1, Len(messages) - AppendedAfterBuild)
        w == short_term_memory
        n == Len(built) - 2
    IN /\ n = (IF Len(w) < 2 * SHORT_TERM_CAP THEN Len(w) ELSE 2 * SHORT_TERM_CAP)
       /\ n <= 2 * SHORT_TERM_CAP
       /\ built[1].role = "system"
       /\ \A i \in 1..n : built[1 + i] = w[Len(w) - n + i]
       /\ \A i \in 2..Len(built) : built[i].role # "system"
       /\ built[Len(built)] = Msg("user", user_input)

\* A retry context built from a window longer than 2 * SHORT_TERM_CAP: the
\* oldest messages of the window are left out.
C11_Witness ==
  /\ Len(short_term_memory) > 2 * SHORT_TERM_CAP
  /\ call_kind = "retry"
  /\ Len(messages) = 2 * SHORT_TERM_CAP + 3
  /\ messages[2] = short_term_memory[Len(short_term_memory) - 2 * SHORT_TERM_CAP + 1]
  /\ messages[2] # short_term_memory[1]

\* The re-prompt calls of the turn so far: the oracle calls that are not
\* the initial call, a retry call or the summarizing call.
RepromptCalls ==
  llm_calls - 1 - attempt - (IF call_kind = "summary" THEN 1 ELSE 0)

\* C12: an empty or whitespace-only initial oracle output is answered, before
\* any parsing, by exactly one more oracle call whose context is the same
\* message list with one user-role instruction appended; a non-empty one is
\* not; the extra call leaves the retry counter at 0 and is made at most
\* once per turn.
C12_EmptyRepromptOnce ==
  /\ pc = "reprompt" =>
       /\ response_text = <<>>
       /\ call_kind = "initial"
       /\ llm_calls = 1
       /\ attempt = 0
       /\ dispatches = 0
       /\ tool_call = NoCall
  /\ (call_kind = "initial" /\ pc # "reprompt") => response_text # <<>>
  /\ call_kind = "reprompt" =>
       /\ IsFreshContext(SubSeq(messages, 1, Len(messages) - 1))
       /\ messages[Len(messages)] = Msg("user", EmptyNotice)
       /\ llm_calls = 2
       /\ attempt = 0
       /\ dispatches <= 1
  /\ call_kind # "none" => RepromptCalls \in {0, 1}

\* A turn that was re-prompted and still made MAX_TOOL_RETRIES + 1
\* dispatches before its summary.
C12_Witness ==
  /\ pc = "turn_done"
  /\ RepromptCalls = 1
  /\ dispatches = MAX_TOOL_RETRIES + 1
  /\ attempt = MAX_TOOL_RETRIES
  /\ call_kind = "summary"

\* C13: the n_results that recall passes to the store's query is never
\* above the number of entries in the store, whatever the size of the
\* store, the empty store included.
C13_NResultsWithinCount ==
  store_query.called => store_query.n_results <= store_query.count

\* C16: recall with an empty or whitespace-only query returns an empty
\* list and calls neither count nor query of the store.
C16_BlankQueryNoStore ==
  (pc = "recalled" /\ Strip(user_input) = <<>>) =>
    /\ recalled = <<>>
    /\ ~store_query.called
    /\ store_query = NoQuery

\* recall returned for a whitespace-only query on a store with entries.
C16_Witness ==
  /\ pc = "recalled"
  /\ user_input = <<" ", "\n">>
  /\ Len(collection) > 0
  /\ recalled = <<>>
  /\ ~store_query.called

\* The text begins with the marker of line 142 (the token holds the marker
\* and the blank that follows it).
BeginsWithLLMError(text) == text # <<>> /\ text[1] = "[LLM Error] "

IsPrefix(old, new) ==
  Len(old) <= Len(new) /\ SubSeq(new, 1, Len(old)) = old

\* C15: the window is append-only: no step of _chat_turn (context
\* assembly, re-prompt, parse, dispatch, retry, summary) changes it, and the
\* main loop only appends to it, so the window before any step is a prefix
\* of the window after it.
C15_WindowAppendOnly ==
  [][/\ IsPrefix(short_term_memory, short_term_memory')
     /\ (pc # "turn_done" => short_term_memory' = short_term_memory)]_vars

\* The main loop appended a turn to the window.
C15_Witness ==
  /\ pc = "input"
  /\ turns >= 1
  /\ Len(short_term_memory) = Len(InitialWindow) + 2
  /\ IsPrefix(InitialWindow, short_term_memory)

\* C17: the summarizing call is the last oracle call of its turn and is
\* made once: its output is the final answer, never parsed and never
\* dispatched, even when it holds a fenced block naming a registered tool;
\* its context is a fresh context, then the assistant reply whose tool call
\* was dispatched last, then one user notification with the last result.
C17_SummaryIsFinal ==
  call_kind = "summary" =>
    LET n == Len(messages)
    IN /\ pc = "turn_done"
       /\ reply = response_text
       /\ llm_calls = 1 + RepromptCalls + attempt + 1
       /\ RepromptCalls \in {0, 1}
       /\ dispatches = attempt + 1
       /\ tool_call.kind = "call"
       /\ n >= 4
       /\ IsFreshContext(SubSeq(messages, 1, n - 2))
       /\ messages[n - 1].role = "assistant"
       /\ ParseJsonFromResponse(messages[n - 1].content, AVAILABLE_TOOLS) = tool_call
       /\ messages[n] = Msg("user", ToolFeedback(result))

\* The summary holds a fenced block naming a registered tool, and the turn
\* returned it as the final answer after a single dispatch.
C17_Witness ==
  /\ call_kind = "summary"
  /\ pc = "turn_done"
  /\ ParseJsonFromResponse(reply, AVAILABLE_TOOLS).kind = "call"
  /\ dispatches = 1

\* The places inside _chat_turn.
TurnPcs == {"reprompt", "parse", "dispatch", "retry", "summarize"}

\* A bound on the steps _chat_turn still has to make from place p with the
\* retry counter at a: three steps (parse, dispatch, retry call) for each
\* retry left, then parse, dispatch and the summarizing call.
TurnRank(p, a) ==
  CASE p = "reprompt" -> 3 * (MAX_TOOL_RETRIES - a) + 4
    [] p = "parse" -> 3 * (MAX_TOOL_RETRIES - a) + 3
    [] p = "dispatch" -> 3 * (MAX_TOOL_RETRIES - a) + 2
    [] p = "retry" -> 3 * (MAX_TOOL_RETRIES - a) + 1
    [] p = "summarize" -> 1
    [] OTHER -> 0

\* Inside a turn the next statement can run, whatever the oracle, the
\* store and the handler do.
TurnCanStep ==
  /\ OracleOutcomes # {}
  /\ pc \in {"retry", "summarize"} =>
       RecallResults(user_input, RECALL_N, collection) # {}
  /\ pc = "dispatch" =>
       HandlerOutcomes(tool_call.action, tool_call.args) # {}

\* A step that lowers the bound, or a registration that leaves it.
RankLowered ==
  \/ TurnRank(pc', attempt') < TurnRank(pc, attempt)
  \/ /\ AVAILABLE_TOOLS' # AVAILABLE_TOOLS
     /\ TurnRank(pc', attempt') = TurnRank(pc, attempt)

\* C18: every turn terminates and makes at most MAX_TOOL_RETRIES + 3 oracle
\* calls (the initial call, at most one re-prompt, at most MAX_TOOL_RETRIES
\* retry calls, at most one summarizing call), whatever the oracle and the
\* tools return. Termination: inside a turn a step is always possible, and
\* every step of the turn lowers a bound that is never negative (a
\* registration made while a handler runs leaves it as it is).
C18_TurnTerminates ==
  /\ [](/\ llm_calls <= MAX_TOOL_RETRIES + 3
        /\ (call_kind # "none" => RepromptCalls \in {0, 1})
        /\ attempt <= MAX_TOOL_RETRIES
        /\ TurnRank(pc, attempt) >= 0
        /\ (pc \in TurnPcs => TurnCanStep))
  /\ [][(pc \in TurnPcs => RankLowered)]_vars

\* A turn that made every oracle call it can make.
C18_Witness ==
  /\ pc = "turn_done"
  /\ llm_calls = MAX_TOOL_RETRIES + 3
  /\ call_kind = "summary"

\* The window holds whole turns: a user message, then an assistant message.
WindowAlternates ==
  /\ Len(short_term_memory) % 2 = 0
  /\ \A i \in 1..Len(short_term_memory) :
       short_term_memory[i].role = (IF i % 2 = 1 THEN "user" ELSE "assistant")

\* What main does with the reply of a finished turn, as the claim has it.
TurnRecordedOnce ==
  IF CharLen(Strip(reply)) < MIN_REPLY_CHARS
  THEN /\ short_term_memory' = short_term_memory
       /\ collection' = collection
  ELSE /\ short_term_memory' = short_term_memory
            \o <<Msg("user", user_input), Msg("assistant", reply)>>
       /\ Len(collection') = Len(collection) + 1
       /\ IsPrefix(collection, collection')

\* C19: a turn whose reply has fewer than 5 characters after trimming
\* leaves the window and the store as they are; every other turn appends
\* the user input and then the reply to the window and adds exactly one
\* entry to the store; the window length stays even and its roles
\* alternate user, assistant.
C19_TurnRecordedOnce ==
  /\ []WindowAlternates
  /\ [][(pc = "turn_done" => TurnRecordedOnce)]_vars

====
